---- MODULE Spec2Model ----
(***************************************************************************)
(* Abduction: the entity mutation log and its snapshot reconstruction      *)
(* (abduction-server SQL), and the site's client projection (Game,         *)
(* the layout's snapshot fetch, events buffer and drain interval).         *)
(***************************************************************************)
EXTENDS Integers, Sequences, FiniteSets, TLC

(***************************************************************************)
(* Bounds and small input sets                                             *)
(***************************************************************************)
\* Rows appended to entity_mutation by InsertMutation (SpecLog).
MaxAppends == 3
\* Matches the server starts (SpecSync, SpecTick).
MaxMatches == 2
\* Mutations the server writes (SpecSync).
MaxMutations == 2
\* Ticks the server starts per match (SpecTick).
MaxTick == 2
\* Events the stream hands to on_data in one page session (SpecClient).
MaxRecv == 3

\* Logs the game_log_stream hands to the page (SpecNarration).
MaxLogs == 2
\* Rows inserted into entity_mutation (SpecStore).
MaxStored == 2
\* Instants a created_at can take (SpecConfigs).
MaxTime == 2

LogEntityIds == {"a", "b", "c"}
EntityIds == {"a", "b"}
Payloads == {"p1", "p2"}
MatchIds == 1..MaxMatches
\* SQL NULL in the payload column.
NULL == "NULL"

(***************************************************************************)
(* State                                                                   *)
(***************************************************************************)
VARIABLES
    match_config, \* rows of match_config (a SQL table: a set of rows)
    table,      \* rows of entity_mutation (a SQL table: a set of rows)
    running,    \* server: id of the match currently running, 0 when none
    started,    \* server: number of matches started so far
    tick,       \* server: tick counter of the running match
    written,    \* server: number of mutations written so far
    subscribed, \* server: the page's events_stream subscription is active
    fetch,      \* get_entity_states call of the page: requested/computed/done
    game,       \* the Game object of the page
    entityPositions, \* the page's map of entity_id to the hex it draws it on
    events,     \* the layout's events buffer
    received,   \* history: events given to on_data in this page session
    processed,  \* history: events handed to processEvent in this page session
    frozen,     \* history: entities and tickId when EndOfMatch was processed
    observed,   \* history: values assigned to tickId by StartOfTick events
    reloading,  \* browser: location.reload() was called, the page still runs
    delivered,  \* history: match and mutation_id cutoffs the page has seen
    resetFor,   \* history: match of the StartOfMatch that reloaded the page
    registrations, \* history: onUpdate calls not yet unsubscribed, by handler
    ring,       \* a RingBuffer object
    added       \* history: the items given to RingBuffer.add, in order

libVars == <<registrations, ring, added>>
vars == <<match_config, table, running, started, tick, written, subscribed, fetch, game,
          entityPositions, events, received, processed, frozen, observed, reloading,
          delivered, resetFor, libVars>>

serverVars == <<running, started, tick, written>>
pageVars ==
    <<game, entityPositions, events, received, processed, frozen, observed,
      reloading>>

(***************************************************************************)
(* entity_mutation and the reconstruction query                            *)
(***************************************************************************)
Max(S) == CHOOSE x \in S : \A y \in S : y <= x

\* mutation_id INTEGER PRIMARY KEY: SQLite gives a new row max(rowid) + 1.
NextMutationId(rows) ==
    IF rows = {} THEN 1 ELSE Max({r.mutation_id : r \in rows}) + 1

Row(id, e, m, t, p) ==
    [mutation_id |-> id, entity_id |-> e, match_id |-> m,
     mutation_type |-> t, payload |-> p]

\* INSERT OR REPLACE keyed by the entity: the entity's earlier rows go.
InsertOrReplaceRow(rows, e, m, t, p) ==
    {r \in rows : r.entity_id # e \/ r.match_id # m}
        \cup {Row(NextMutationId(rows), e, m, t, p)}

\* INSERT INTO entity_mutation(entity_id, match_id, mutation_type, payload)
InsertRow(rows, e, m, t, p) ==
    rows \cup {Row(NextMutationId(rows), e, m, t, p)}

\* The rows the test-entity migration inserts: Set a, Set b, Set c, Delete c.
TestFixture ==
    InsertRow(InsertRow(InsertRow(InsertRow({},
        "a", 1, "S", "p1"), "b", 1, "S", "p2"), "c", 1, "S", "p1"),
        "c", 1, "D", NULL)

\* The CTE without its WHERE.
all_mutations(rows, m) == rows

\* WITH match_mutations AS (SELECT * from entity_mutation WHERE match_id = ?)
match_mutations(rows, m) == {r \in rows : r.match_id = m}

\* The window ordered by mutation_id ASC instead.
row_num_asc(rows, r) ==
    1 + Cardinality({q \in rows : /\ q.entity_id = r.entity_id
                                  /\ q.mutation_id < r.mutation_id})

\* The window ordered by timestamp DESC instead.
row_num_by_timestamp(rows, r) ==
    1 + Cardinality({q \in rows : /\ q.entity_id = r.entity_id
                                  /\ q.timestamp > r.timestamp})

\* ROW_NUMBER() OVER (PARTITION BY entity_id ORDER BY mutation_id DESC)
row_num(rows, r) ==
    1 + Cardinality({q \in rows : /\ q.entity_id = r.entity_id
                                  /\ q.mutation_id > r.mutation_id})

\* The query ranking the Set rows only (Delete rows filtered first).
latest_set_mutations(rows, m) ==
    {[row |-> r,
      row_num |-> row_num({q \in match_mutations(rows, m) :
                              q.mutation_type = "S"}, r)] :
        r \in match_mutations(rows, m)}

\* latest_mutations: every row of the match with its rank in its partition.
latest_mutations(rows, m) ==
    {[row |-> r, row_num |-> row_num(match_mutations(rows, m), r)] :
        r \in match_mutations(rows, m)}

\* SELECT entity_id, payload FROM latest_mutations
\* WHERE row_num = 1 AND mutation_type = 'S'
Reconstruct(rows, m) ==
    {<<l.row.entity_id, l.row.payload>> :
        l \in {k \in latest_mutations(rows, m) :
                  k.row_num = 1 /\ k.row.mutation_type = "S"}}

\* The result rows as a map entity_id -> payload.
AsMap(result) ==
    [e \in {x[1] : x \in result} |-> (CHOOSE x \in result : x[1] = e)[2]]

\* timestamp DATETIME NOT NULL DEFAULT CURRENT_TIMESTAMP: the rows with the
\* value of the column, ts[mutation_id] being the clock at the insert.
WithTimestamps(rows, ts) ==
    {[mutation_id |-> r.mutation_id, entity_id |-> r.entity_id,
      match_id |-> r.match_id, mutation_type |-> r.mutation_type,
      payload |-> r.payload, timestamp |-> ts[r.mutation_id]] : r \in rows}

\* mutation_type TEXT CHECK( mutation_type IN ('S','D') ) NOT NULL
CheckMutationType(t) == t \in {"S", "D"}

(***************************************************************************)
(* match_config, set_match_config and get_incomplete_match_config          *)
(***************************************************************************)
Times == 1..MaxTime
PlayerCounts == {1, 2}
\* The player count of the matches in SpecSync and SpecTick.
StreamPlayerCounts == {1}
\* preceding_match_id is nullable: 0 stands for NULL.
Preceding == {0} \cup MatchIds

\* The columns of match_config the queries write or test.
ConfigRow(id, pc, prec, done, at) ==
    [match_id |-> id, player_count |-> pc, preceding_match_id |-> prec,
     complete |-> done, created_at |-> at]

\* INSERT OR REPLACE: the row is written anew, complete back at its DEFAULT.
insert_or_replace_match_config(rows, id, pc, prec, at) ==
    {r \in rows : r.match_id # id} \cup {ConfigRow(id, pc, prec, FALSE, at)}

\* INSERT INTO match_config(match_id, player_count, preceding_match_id,
\* created_at) VALUES (?, ?, ?, ?) ON CONFLICT ("match_id") DO UPDATE SET
\* player_count, preceding_match_id, created_at = EXCLUDED.*
\* A new row takes complete from its DEFAULT FALSE; the update leaves it.
set_match_config(rows, id, pc, prec, at) ==
    IF \E r \in rows : r.match_id = id
    THEN {IF r.match_id = id
          THEN [r EXCEPT !.player_count = pc, !.preceding_match_id = prec,
                         !.created_at = at]
          ELSE r : r \in rows}
    ELSE rows \cup {ConfigRow(id, pc, prec, FALSE, at)}

\* ORDER BY created_at ASC LIMIT 1.
oldest_match(rows) ==
    {r \in rows : \A q \in rows : r.created_at <= q.created_at}

\* WITH latest_match as (SELECT * FROM match_config ORDER BY created_at DESC
\* LIMIT 1): the rows LIMIT 1 can keep (more than one only when the greatest
\* created_at is shared, SQL then keeps any one of them).
latest_match(rows) ==
    {r \in rows : \A q \in rows : q.created_at <= r.created_at}

\* The columns the lookup selects.
SelectConfig(r) ==
    [match_id |-> r.match_id, player_count |-> r.player_count,
     preceding_match_id |-> r.preceding_match_id, complete |-> r.complete]

\* SELECT ... FROM latest_match WHERE complete = true
get_complete_match_config(rows) ==
    IF rows = {} THEN {{}}
    ELSE {IF r.complete THEN {SelectConfig(r)} ELSE {} :
             r \in latest_match(rows)}

\* SELECT ... FROM match_config WHERE complete = false
\* ORDER BY created_at DESC LIMIT 1: the filter before the LIMIT.
get_newest_incomplete_match_config(rows) ==
    LET open == {r \in rows : ~r.complete}
    IN  IF open = {} THEN {{}}
        ELSE {{SelectConfig(r)} :
                 r \in {o \in open : \A q \in open :
                                        q.created_at <= o.created_at}}

\* SELECT ... FROM latest_match WHERE complete = false
\* The result sets the query can return: no row, or the latest row.
get_incomplete_match_config(rows) ==
    IF rows = {} THEN {{}}
    ELSE {IF r.complete THEN {} ELSE {SelectConfig(r)} :
             r \in latest_match(rows)}

\* UPDATE match_config SET complete = true WHERE match_id = ?
complete_match_config(rows, id) ==
    {IF r.match_id = id THEN [r EXCEPT !.complete = TRUE] ELSE r : r \in rows}

\* The instant of the next write: later than every created_at stored.
NextInstant(rows) ==
    IF rows = {} THEN 1 ELSE Max({r.created_at : r \in rows}) + 1

(***************************************************************************)
(* Replay: folding the mutations of a match in mutation_id order           *)
(***************************************************************************)
MapSet(map, e, v) == [x \in DOMAIN map \cup {e} |-> IF x = e THEN v ELSE map[x]]
MapDelete(map, e) == [x \in DOMAIN map \ {e} |-> map[x]]
EmptyMap == [x \in {} |-> NULL]

RECURSIVE Replay(_, _)
Replay(rows, map) ==
    IF rows = {} THEN map
    ELSE LET first == CHOOSE r \in rows :
                         \A q \in rows : r.mutation_id <= q.mutation_id
             next  == IF first.mutation_type = "S"
                      THEN MapSet(map, first.entity_id, first.payload)
                      ELSE MapDelete(map, first.entity_id)
         IN  Replay(rows \ {first}, next)

(***************************************************************************)
(* TickEvent, EntityChange, Entity (api.gen types as the client reads them) *)
(***************************************************************************)
\* An entity value; match records which match's log the value came from.
Entity(id, m, p) == [entity_id |-> id, match |-> m, payload |-> p]
NoEntity == Entity("", 0, NULL)

SetEntity(e) == [kind |-> "set_entity", entity_id |-> e.entity_id, entity |-> e]
RemoveEntity(id) == [kind |-> "remove_entity", entity_id |-> id, entity |-> NoEntity]

\* match records which match the server emitted the event for.
TickEvent(k, m, t, ch) == [kind |-> k, match |-> m, tick_id |-> t, changes |-> ch]
StartOfMatch(m) == TickEvent("start_of_match", m, 0, <<>>)
StartOfTick(m, t) == TickEvent("start_of_tick", m, t, <<>>)
EntityChanges(m, ch) == TickEvent("entity_changes", m, 0, ch)
EndOfMatch(m) == TickEvent("end_of_match", m, 0, <<>>)
\* A kind this client version does not know.
UnknownEvent(m) == TickEvent("weather_change", m, 0, <<>>)

(***************************************************************************)
(* Game (game.svelte.ts)                                                   *)
(***************************************************************************)
\* export const LOG_BUFFER_LIMIT = 1000
LOG_BUFFER_LIMIT == 1000

\* constructor
NewGame ==
    [entities |-> EmptyMap, logs |-> <<>>, logCounter |-> 0, tickId |-> 0,
     config |-> {}, loaded |-> FALSE, waitingForStart |-> FALSE,
     entityUpdateHandlers |-> <<>>]

\* onUpdate(handler): this.entityUpdateHandlers.push(handler)
onUpdate(g, handler) ==
    [g EXCEPT !.entityUpdateHandlers = Append(@, handler)]

\* A set that keeps the entry an id already has.
EntitiesSetIfAbsent(g, e) ==
    IF e.entity_id \in DOMAIN g.entities THEN g
    ELSE [g EXCEPT !.entities = MapSet(g.entities, e.entity_id, e)]

\* this.entities.set(change.entity.entity_id, change.entity)
EntitiesSet(g, e) ==
    [g EXCEPT !.entities = MapSet(g.entities, e.entity_id, e)]

\* this.entities.delete(change.entity_id)
EntitiesDelete(g, id) ==
    [g EXCEPT !.entities = MapDelete(g.entities, id)]

\* A loop body whose set_entity toggles an entry that is already there.
ApplyChangeToggle(g, change) ==
    IF change.kind = "set_entity"
    THEN IF change.entity.entity_id \in DOMAIN g.entities
         THEN EntitiesDelete(g, change.entity.entity_id)
         ELSE EntitiesSet(g, change.entity)
    ELSE IF change.kind = "remove_entity"
         THEN EntitiesDelete(g, change.entity_id) ELSE g

\* The body of the loop over event.changes.
ApplyChange(g, change) ==
    LET g1 == IF change.kind = "set_entity"
              THEN EntitiesSet(g, change.entity) ELSE g
    IN  IF change.kind = "remove_entity"
        THEN EntitiesDelete(g1, change.entity_id) ELSE g1

\* for (const change of event.changes) { ... }
RECURSIVE ApplyChanges(_, _)
ApplyChanges(g, changes) ==
    IF changes = <<>> THEN g
    ELSE ApplyChanges(ApplyChange(g, Head(changes)), Tail(changes))

\* The branches with end_of_match also clearing what the match left.
ProcessLiveEndClears(g, event) ==
    LET g1 == IF event.kind = "entity_changes"
              THEN ApplyChanges(g, event.changes) ELSE g
        g2 == IF event.kind = "start_of_tick"
              THEN [g1 EXCEPT !.tickId = event.tick_id] ELSE g1
    IN  IF event.kind = "end_of_match"
        THEN [g2 EXCEPT !.waitingForStart = TRUE, !.entities = EmptyMap,
                        !.tickId = 0]
        ELSE g2

\* The branches with end_of_match leaving waitingForStart alone.
ProcessLiveNoEnd(g, event) ==
    LET g1 == IF event.kind = "entity_changes"
              THEN ApplyChanges(g, event.changes) ELSE g
    IN  IF event.kind = "start_of_tick"
        THEN [g1 EXCEPT !.tickId = event.tick_id] ELSE g1

\* The branches of processEvent after its first if / else if.
ProcessLive(g, event) ==
    LET g1 == IF event.kind = "entity_changes"
              THEN ApplyChanges(g, event.changes) ELSE g
        g2 == IF event.kind = "start_of_tick"
              THEN [g1 EXCEPT !.tickId = event.tick_id] ELSE g1
    IN  IF event.kind = "end_of_match"
        THEN [g2 EXCEPT !.waitingForStart = TRUE] ELSE g2

\* A guard that lets every event through.
IgnoresNothing(g, event) == FALSE

\* else if (this.waitingForStart) return;
IgnoresEvent(g, event) ==
    event.kind # "start_of_match" /\ g.waitingForStart

\* processEvent with a last branch that is an else: a kind none of the
\* branches names ends the match.
ProcessEventElseEnds(g, event) ==
    IF IgnoresEvent(g, event) THEN g
    ELSE IF event.kind \in {"start_of_match", "start_of_tick",
                            "entity_changes", "end_of_match"}
    THEN ProcessLive(g, event)
    ELSE [g EXCEPT !.waitingForStart = TRUE]

\* processEvent: the Game after the call. location.reload() only asks the
\* browser to navigate; the call returns and the method runs on.
ProcessEvent(g, event) ==
    IF IgnoresEvent(g, event) THEN g ELSE ProcessLive(g, event)

\* if (event.kind === 'start_of_match') location.reload();
CallsReload(event) == event.kind = "start_of_match"

(***************************************************************************)
(* Narration (logs.ts) and Game.addLog                                     *)
(***************************************************************************)
\* What the payloads of the model stand for: p1 is an entity named
\* "Empty Entity" with no markers and no attributes, p2 one named
\* "Full Entity" that is inspectable, lies on a hex and is a corpse.
NoHex == <<>>
EntityName(e) == IF e.payload = "p1" THEN "Empty Entity" ELSE "Full Entity"
EntityHex(e) == IF e.payload = "p1" THEN NoHex ELSE <<0, 1>>
\* attributes.corpse: p2 is the corpse of entity c, p1 is no corpse.
NoCorpse == ""
EntityCorpse(e) == IF e.payload = "p1" THEN NoCorpse ELSE "c"

\* A GameLog as logs.ts reads it.
GameLog(k, involved, by) == [kind |-> k, involved_entities |-> involved, by |-> by]

\* logLevel without the lightning_strike line.
logLevelNoStrike(log) ==
    IF Len(log.involved_entities) = 0 THEN "global"
    ELSE IF log.kind = "entity_death" THEN "global"
    ELSE "local"

\* export function logLevel(log: GameLog)
logLevel(log) ==
    IF Len(log.involved_entities) = 0 THEN "global"
    ELSE IF log.kind = "entity_death" THEN "global"
    ELSE IF log.kind = "lightning_strike" THEN "global"
    ELSE "local"

formatDirection(dir) ==
    CASE dir = "east" -> "east"
      [] dir = "west" -> "west"
      [] dir = "north_east" -> "north east"
      [] dir = "north_west" -> "north west"
      [] dir = "south_east" -> "south east"
      [] dir = "south_west" -> "south west"

\* entities?.[i]?.name without the ?? 'Someone'.
InvolvedNameNoFallback(log, g, i) ==
    IF /\ i <= Len(log.involved_entities)
       /\ log.involved_entities[i] \in DOMAIN g.entities
    THEN EntityName(g.entities[log.involved_entities[i]])
    ELSE "undefined"

\* entities?.[i]?.name ?? 'Someone'
InvolvedName(log, g, i) ==
    IF /\ i <= Len(log.involved_entities)
       /\ log.involved_entities[i] \in DOMAIN g.entities
    THEN EntityName(g.entities[log.involved_entities[i]])
    ELSE "Someone"

\* The value of a function that returns without a return statement.
Undefined == <<>>

\* logMessage for the kinds of the model; a message is the sequence of the
\* parts the template joins.
logMessage(log, g) ==
    LET primaryName == InvolvedName(log, g, 1)
        secondaryName == InvolvedName(log, g, 2)
    IN  CASE log.kind = "entity_movement" ->
               <<primaryName, " trekked ", formatDirection(log.by)>>
          [] log.kind = "entity_consume" ->
               <<primaryName, " consumed a ", secondaryName>>
          [] log.kind = "entity_death" -> <<primaryName, " has died">>
          [] log.kind = "lightning_strike" ->
               <<"Lightning struck the ground and started a fire!">>
          [] OTHER -> Undefined

\* log.involved_entities.map((e) => this.entities.get(e)?.attributes.hex)
\*     .filter(Boolean)
InvolvedHexes(log, g) ==
    LET hexes == [i \in 1..Len(log.involved_entities) |->
                     IF log.involved_entities[i] \in DOMAIN g.entities
                     THEN EntityHex(g.entities[log.involved_entities[i]])
                     ELSE NoHex]
    IN  SelectSeq(hexes, LAMBDA h : h # NoHex)

\* The entry addLog pushes, without the ?? '...'.
DecoratedLogNoPlaceholder(log, g) ==
    [kind |-> log.kind, involved_entities |-> log.involved_entities,
     by |-> log.by,
     message |-> logMessage(log, g),
     level |-> logLevel(log),
     involved_hexes |-> InvolvedHexes(log, g),
     id |-> g.logCounter]

\* The entry addLog pushes.
DecoratedLog(log, g) ==
    [kind |-> log.kind, involved_entities |-> log.involved_entities,
     by |-> log.by,
     message |-> IF logMessage(log, g) = Undefined THEN <<"...">>
                 ELSE logMessage(log, g),
     level |-> logLevel(log),
     involved_hexes |-> InvolvedHexes(log, g),
     id |-> g.logCounter]

\* An addLog that acts on what the log reports: a death removes the entity.
addLogActingOnDeath(g, log) ==
    [g EXCEPT !.logs = Append(@, DecoratedLog(log, g)),
              !.logCounter = @ + 1,
              !.entities = IF log.kind = "entity_death"
                              /\ log.involved_entities # <<>>
                           THEN MapDelete(@, log.involved_entities[1])
                           ELSE @]

\* An addLog that reads logCounter for the id and leaves it as it is.
addLogCounterKept(g, log) ==
    [g EXCEPT !.logs = Append(@, DecoratedLog(log, g))]

\* addLog(log: GameLog)
addLog(g, log) ==
    [g EXCEPT !.logs = Append(@, DecoratedLog(log, g)),
              !.logCounter = @ + 1]

(***************************************************************************)
(* The layout: snapshot fetch, events buffer, drain interval               *)
(***************************************************************************)
\* get_entity_states answers: absent, or the entities of the running match.
Absent == [present |-> FALSE, states |-> EmptyMap]
States(map) == [present |-> TRUE, states |-> map]

\* for (const entity of states) game.entities.set(entity.entity_id, entity)
MergeStates(map, states) ==
    [x \in DOMAIN map \cup DOMAIN states |->
        IF x \in DOMAIN states THEN states[x] ELSE map[x]]

\* if (states?.length): an empty list taken for no answer.
OnEntityStatesNonEmpty(g, answer) ==
    IF answer.present /\ answer.states # EmptyMap
    THEN [g EXCEPT !.loaded = TRUE, !.waitingForStart = FALSE,
                   !.entities = MergeStates(g.entities, answer.states)]
    ELSE [g EXCEPT !.waitingForStart = TRUE]

\* client.get_entity_states.query().then((states) => { ... })
OnEntityStates(g, answer) ==
    IF answer.present
    THEN [g EXCEPT !.loaded = TRUE, !.waitingForStart = FALSE,
                   !.entities = MergeStates(g.entities, answer.states)]
    ELSE [g EXCEPT !.waitingForStart = TRUE]

\* on_data: (event) => { events.push(event) }
on_data(buf, event) == Append(buf, event)

\* on_error: (error) => { console.warn('Stream had an error', error) }
on_error(buf, error) == buf

\* An interval callback without the early return.
DrainNeverReturnsEarly(g) == FALSE

\* if (!game.loaded && !game.waitingForStart) return;
DrainReturnsEarly(g) == ~g.loaded /\ ~g.waitingForStart

\* Taking the newest event of the buffer instead of the oldest.
Pop(buf) == [event |-> buf[Len(buf)], rest |-> SubSeq(buf, 1, Len(buf) - 1)]

\* events.shift()
Shift(buf) == [event |-> Head(buf), rest |-> Tail(buf)]

(***************************************************************************)
(* The game page: the positions it draws, kept by an onUpdate handler      *)
(***************************************************************************)
\* e.markers.includes('inspectable'): of the payloads of the model, p2 is
\* an inspectable entity and p1 is not.
EntityInspectable(e) == e.payload = "p2"

\* function updateEntityPosition(e: Entity)
updateEntityPosition(positions, e) ==
    IF EntityInspectable(e) /\ EntityHex(e) # NoHex
    THEN MapSet(positions, e.entity_id, EntityHex(e))
    ELSE positions

\* The functions given to onUpdate: the game page's updateEntityPosition,
\* and a handler that calls the function its onUpdate returned when it is
\* invoked.
Handlers == {"updateEntityPosition", "unsubscribeOnCall"}

\* An unsubscribe that takes out one entry, the first, of the handler.
RECURSIVE WithoutFirst(_, _)
WithoutFirst(handlers, handler) ==
    IF handlers = <<>> THEN <<>>
    ELSE IF Head(handlers) = handler THEN Tail(handlers)
    ELSE <<Head(handlers)>> \o WithoutFirst(Tail(handlers), handler)

\* this.entityUpdateHandlers.filter((h) => h !== handler)
Without(handlers, handler) == SelectSeq(handlers, LAMBDA h : h # handler)

\* The function onUpdate(handler) returns, called.
Unsubscribed(g, handler) ==
    [g EXCEPT !.entityUpdateHandlers = Without(@, handler)]

\* for (const handler of this.entityUpdateHandlers) handler(change.entity):
\* the loop goes over the array the field held when it started, while a
\* handler that unsubscribes gives the field a new array.
\* c = [handlers (the field), positions]
RECURSIVE Notify(_, _, _)
Notify(c, array, e) ==
    IF array = <<>> THEN c
    ELSE LET handler == Head(array)
             c1 == IF handler = "updateEntityPosition"
                   THEN [c EXCEPT !.positions = updateEntityPosition(@, e)]
                   ELSE IF handler = "unsubscribeOnCall"
                   THEN [c EXCEPT !.handlers = Without(@, handler)]
                   ELSE c
         IN  Notify(c1, Tail(array), e)

\* What the loop over the handlers leaves in entityPositions.
CallEach(positions, handlers, e) ==
    Notify([handlers |-> handlers, positions |-> positions], handlers, e)
        .positions

\* The handler calls of the loop over event.changes: set_entity changes only.
RECURSIVE CallForChanges(_, _, _)
CallForChanges(positions, handlers, changes) ==
    IF changes = <<>> THEN positions
    ELSE CallForChanges(IF Head(changes).kind = "set_entity"
                        THEN CallEach(positions, handlers, Head(changes).entity)
                        ELSE positions,
                        handlers, Tail(changes))

\* What processEvent's handler calls leave in entityPositions.
CallHandlers(positions, g, event) ==
    IF event.kind = "entity_changes" /\ ~IgnoresEvent(g, event)
    THEN CallForChanges(positions, g.entityUpdateHandlers, event.changes)
    ELSE positions

\* type Focus = { kind: 'entity' } | { kind: 'hex' } | null
NoFocus == [kind |-> "none", entityId |-> "", hex |-> NoHex]
EntityFocus(id) == [kind |-> "entity", entityId |-> id, hex |-> NoHex]
HexFocus(hex) == [kind |-> "hex", entityId |-> "", hex |-> hex]

\* The elements of a sequence.
Range(seq) == {seq[i] : i \in DOMAIN seq}

\* The filter of logView with the focus compared loosely: no focus passes.
ShownAlways(g, focus, l) ==
    \/ l.level = "global"
    \/ focus.kind # "hex"
    \/ focus.hex \in Range(l.involved_hexes)

\* The filter of logView: is the entry l shown under the focus?
Shown(g, focus, l) ==
    \/ l.level = "global"
    \/ focus.kind = "entity" /\ focus.entityId \in Range(l.involved_entities)
    \/ focus.kind = "hex" /\ focus.hex \in Range(l.involved_hexes)
    \/ /\ focus.kind = "entity"
       /\ focus.entityId \in DOMAIN g.entities
       /\ EntityCorpse(g.entities[focus.entityId]) # NoCorpse
       /\ EntityCorpse(g.entities[focus.entityId])
             \in Range(l.involved_entities)

\* const logView = $derived.by(() => game.logs.filter(...))
logView(g, focus) == SelectSeq(g.logs, LAMBDA l : Shown(g, focus, l))

\* The Game once the game page is mounted:
\* $effect(() => game.onUpdate(updateEntityPosition))
MountedGame == onUpdate(NewGame, "updateEntityPosition")

\* What the page's onMount and $effect have registered.
MountedRegistrations ==
    [h \in Handlers |-> IF h = "updateEntityPosition" THEN 1 ELSE 0]

\* One turn of the while loop, with the histories it leaves behind.
\* c = [game, entityPositions, reloading, processed, frozen, observed]
Turn(c, event) ==
    LET g == ProcessEvent(c.game, event)
    IN  [game      |-> g,
         entityPositions |-> CallHandlers(c.entityPositions, c.game, event),
         reloading |-> c.reloading \/ CallsReload(event),
         processed |-> Append(c.processed, event),
         frozen    |-> IF event.kind = "end_of_match" /\ ~c.frozen.set
                       THEN [set |-> TRUE, entities |-> g.entities,
                             tickId |-> g.tickId]
                       ELSE c.frozen,
         observed  |-> IF event.kind = "start_of_tick"
                          /\ ~IgnoresEvent(c.game, event)
                       THEN Append(c.observed, g.tickId)
                       ELSE c.observed]

\* while (events.length > 0) game.processEvent(events.shift()!)
RECURSIVE DrainAll(_, _)
DrainAll(c, buf) ==
    IF buf = <<>> THEN c
    ELSE DrainAll(Turn(c, Shift(buf).event), Shift(buf).rest)

(***************************************************************************)
(* RingBuffer (ring-buffer.svelte.ts)                                      *)
(***************************************************************************)
\* An array slot that was never assigned.
Hole == "empty"

\* No iterator has been made.
NoIterator == [active |-> FALSE, i |-> 0, done |-> FALSE, yielded |-> <<>>]

\* No RingBuffer has been constructed.
NoRing == [size |-> 0, items |-> <<>>, pos |-> 0, iterator |-> NoIterator]

\* constructor(size: number)
NewRingBuffer(size) ==
    [size |-> size, items |-> <<>>, pos |-> 0, iterator |-> NoIterator]

\* this.items[index] = item, index counted from 0: an index at or past the
\* length makes the array longer.
ArraySet(items, index, item) ==
    IF index < Len(items) THEN [items EXCEPT ![index + 1] = item]
    ELSE items \o [k \in 1..(index - Len(items)) |-> Hole] \o <<item>>

\* The body of add's forEach with pos counting on, not wrapping.
AddItemNoWrap(r, item) ==
    [r EXCEPT !.items = ArraySet(r.items, r.pos, item), !.pos = r.pos + 1]

\* The body of add's forEach:
\* this.items[this.pos] = item; this.pos = (this.pos + 1) % this.size
AddItem(r, item) ==
    [r EXCEPT !.items = ArraySet(r.items, r.pos, item),
              !.pos = (r.pos + 1) % r.size]

\* add(...items: T[])
RECURSIVE add(_, _)
add(r, items) ==
    IF items = <<>> THEN r ELSE add(AddItem(r, Head(items)), Tail(items))

\* toArray (the source has it commented out): the items from pos on, then
\* the items before pos.
toArray(r) ==
    SubSeq(r.items, r.pos + 1, Len(r.items)) \o SubSeq(r.items, 1, r.pos)

\* Math.min
Min(a, b) == IF a < b THEN a ELSE b

\* *[Symbol.iterator](), up to its first test:
\* const count = Math.min(this.items.length, this.size); let i = this.pos
NewIterator(r) ==
    [active |-> TRUE, i |-> r.pos, done |-> FALSE, yielded |-> <<>>]

\* One next() of the generator, from one test of the for statement to the
\* yield or to the end: the test is i++, which is false when i was 0, and
\* the body runs with i already incremented; i < count is the update
\* expression and has no effect.
IteratorNext(r) ==
    LET it == r.iterator
    IN  IF it.i = 0
        THEN [it EXCEPT !.i = 1, !.done = TRUE]
        ELSE [it EXCEPT !.i = it.i + 1,
                        !.yielded =
                            Append(@, r.items[((it.i + 1) % Len(r.items)) + 1])]

(***************************************************************************)
(* Initial states                                                          *)
(***************************************************************************)
NoHistory == [set |-> FALSE, entities |-> EmptyMap, tickId |-> 0]
NothingDelivered ==
    [match |-> 0, snap |-> 0, last |-> 0,
     error |-> FALSE, lostAt |-> 0, lostId |-> 0, ended |-> FALSE]
Requested == [state |-> "requested", answer |-> Absent]

\* A page that has just mounted: both calls are out, nothing has come back.
PageInit ==
    /\ game = MountedGame
    /\ entityPositions = EmptyMap
    /\ events = <<>>
    /\ received = <<>>
    /\ processed = <<>>
    /\ frozen = NoHistory
    /\ observed = <<>>
    /\ reloading = FALSE
    /\ fetch = Requested
    /\ subscribed = FALSE
    /\ delivered = NothingDelivered
    /\ resetFor = 0
    /\ registrations = MountedRegistrations
    /\ ring = NoRing
    /\ added = <<>>

ServerInit ==
    /\ match_config = {}
    /\ running = 0
    /\ started = 0
    /\ tick = 0
    /\ written = 0

Init ==
    /\ table = {}
    /\ ServerInit
    /\ PageInit

\* The store after the migrations, without or with the test-entity rows.
InitLog ==
    /\ table \in {{}, TestFixture}
    /\ ServerInit
    /\ PageInit

(***************************************************************************)
(* SpecLog: any sequence of appends to entity_mutation                     *)
(***************************************************************************)
InsertMutation(e, m, t, p) ==
    /\ written < MaxAppends
    /\ CheckMutationType(t)
    /\ table' = InsertRow(table, e, m, t, p)
    /\ written' = written + 1
    /\ UNCHANGED <<match_config, running, started, tick, pageVars, fetch,
                   subscribed,
                   delivered, resetFor, libVars>>

NextLog ==
    \E e \in LogEntityIds, m \in MatchIds :
        \/ \E p \in Payloads : InsertMutation(e, m, "S", p)
        \/ InsertMutation(e, m, "D", NULL)

SpecLog == InitLog /\ [][NextLog]_vars

(***************************************************************************)
(* SpecStore: any sequence of inserts the table accepts                    *)
(***************************************************************************)
\* Every mutation_type a caller may pass, and every payload, NULL included.
NextStore ==
    /\ written < MaxStored
    /\ \E e \in EntityIds, m \in MatchIds, t \in {"S", "D", "X"},
          p \in Payloads \cup {NULL} :
           InsertMutation(e, m, t, p)

SpecStore == Init /\ [][NextStore]_vars

(***************************************************************************)
(* SpecConfigs: any sequence of writes to match_config                     *)
(***************************************************************************)
\* set_match_config run with any parameters.
SetMatchConfig(id, pc, prec, at) ==
    /\ match_config' = set_match_config(match_config, id, pc, prec, at)
    /\ UNCHANGED <<table, serverVars, pageVars, fetch, subscribed, delivered,
                   resetFor, libVars>>

\* The completion update run for a stored match.
CompleteMatch(id) ==
    /\ \E r \in match_config : r.match_id = id
    /\ match_config' = complete_match_config(match_config, id)
    /\ UNCHANGED <<table, serverVars, pageVars, fetch, subscribed, delivered,
                   resetFor, libVars>>

NextConfigs ==
    \E id \in MatchIds :
        \/ \E pc \in PlayerCounts, prec \in Preceding, at \in Times :
              SetMatchConfig(id, pc, prec, at)
        \/ CompleteMatch(id)

SpecConfigs == Init /\ [][NextConfigs]_vars

(***************************************************************************)
(* The page's handlers as actions                                          *)
(***************************************************************************)
\* The .then of get_entity_states runs with the answer the server computed.
EntityStatesResponse ==
    /\ fetch.state = "computed"
    /\ game' = OnEntityStates(game, fetch.answer)
    /\ fetch' = [fetch EXCEPT !.state = "done"]
    /\ UNCHANGED <<match_config, table, serverVars, subscribed, entityPositions,
                   events, received, processed, frozen, observed, reloading,
                   delivered, resetFor, libVars>>

\* One firing of the setInterval callback (the whole while loop).
Drain ==
    /\ ~DrainReturnsEarly(game)
    /\ events # <<>>
    /\ LET c == DrainAll([game |-> game, entityPositions |-> entityPositions,
                          reloading |-> reloading,
                          processed |-> processed, frozen |-> frozen,
                          observed |-> observed], events)
       IN  /\ game' = c.game
           /\ entityPositions' = c.entityPositions
           /\ reloading' = c.reloading
           /\ processed' = c.processed
           /\ frozen' = c.frozen
           /\ observed' = c.observed
    /\ events' = <<>>
    /\ UNCHANGED <<match_config, table, serverVars, subscribed, fetch, received, delivered,
                   resetFor, libVars>>

\* The match of the last StartOfMatch handed to processEvent.
RECURSIVE LastStart(_)
LastStart(evs) ==
    IF evs = <<>> THEN 0
    ELSE IF evs[Len(evs)].kind = "start_of_match" THEN evs[Len(evs)].match
    ELSE LastStart(SubSeq(evs, 1, Len(evs) - 1))

\* The navigation asked for by location.reload() happens: the old page, its
\* Game, buffer and subscription are gone and the layout mounts again.
PageReload ==
    /\ reloading
    /\ game' = MountedGame
    /\ entityPositions' = EmptyMap
    /\ events' = <<>>
    /\ received' = <<>>
    /\ processed' = <<>>
    /\ frozen' = NoHistory
    /\ observed' = <<>>
    /\ reloading' = FALSE
    /\ fetch' = Requested
    /\ subscribed' = FALSE
    /\ delivered' = NothingDelivered
    /\ resetFor' = LastStart(processed)
    /\ registrations' = MountedRegistrations
    /\ UNCHANGED <<match_config, table, serverVars, ring, added>>

(***************************************************************************)
(* SpecClient: the page against any answer and any stream of TickEvents    *)
(***************************************************************************)
A1 == Entity("a", 1, "p1")
A2 == Entity("a", 1, "p2")
B1 == Entity("b", 1, "p1")

ChangeLists ==
    {<<SetEntity(A1)>>, <<SetEntity(B1)>>, <<RemoveEntity("a")>>,
     <<SetEntity(A1), SetEntity(A2)>>, <<SetEntity(A1), RemoveEntity("a")>>,
     <<RemoveEntity("a"), SetEntity(A2)>>}

TickEvents ==
    {StartOfMatch(1), EndOfMatch(1), UnknownEvent(1)}
    \cup {StartOfTick(1, t) : t \in 1..MaxTick}
    \cup {EntityChanges(1, ch) : ch \in ChangeLists}

Answers ==
    {Absent, States(EmptyMap),
     States(MapSet(MapSet(EmptyMap, "a", A2), "b", B1))}

\* The server answers get_entity_states.
AnswerEntityStates(answer) ==
    /\ fetch.state = "requested"
    /\ fetch' = [state |-> "computed", answer |-> answer]
    /\ UNCHANGED <<match_config, table, serverVars, subscribed, pageVars,
                   delivered, resetFor, libVars>>

\* The stream hands an event to on_data.
OnData(event) ==
    /\ Len(received) < MaxRecv
    /\ events' = on_data(events, event)
    /\ received' = Append(received, event)
    /\ UNCHANGED <<match_config, table, serverVars, subscribed, fetch, game, entityPositions, processed,
                   frozen, observed, reloading, delivered, resetFor, libVars>>

NextClient ==
    \/ \E answer \in Answers : AnswerEntityStates(answer)
    \/ EntityStatesResponse
    \/ \E event \in TickEvents : OnData(event)
    \/ Drain
    \/ PageReload

SpecClient == Init /\ [][NextClient]_vars

\* The get_entity_states call fails: its promise is rejected, and the
\* layout gave it a .then with one callback and no .catch, so no code of
\* the page runs.
EntityStatesFails ==
    /\ fetch.state = "requested"
    /\ fetch' = [fetch EXCEPT !.state = "failed"]
    /\ UNCHANGED <<match_config, table, serverVars, subscribed, pageVars,
                   delivered, resetFor, libVars>>

\* The call is answered or fails.
FetchSettles ==
    \/ \E answer \in Answers : AnswerEntityStates(answer)
    \/ EntityStatesFails

\* The page against any answer or a failure of its call, with what the
\* browser guarantees: a settled call's callback runs, the interval keeps
\* firing, a reload asked for happens.
NextFetch ==
    \/ FetchSettles
    \/ EntityStatesResponse
    \/ \E event \in TickEvents : OnData(event)
    \/ Drain
    \/ PageReload

SpecFetch ==
    /\ Init
    /\ [][NextFetch]_vars
    /\ WF_vars(FetchSettles)
    /\ WF_vars(EntityStatesResponse)
    /\ WF_vars(Drain)
    /\ WF_vars(PageReload)

(***************************************************************************)
(* SpecHandlers: callers registering and unsubscribing update handlers     *)
(* while SetEntity changes are processed                                   *)
(***************************************************************************)
MaxHandlers == 3

\* A caller calls game.onUpdate(handler) and keeps the function it returns;
\* the handler that unsubscribes itself is registered by one caller only.
OnUpdateCall(handler) ==
    /\ Len(game.entityUpdateHandlers) < MaxHandlers
    /\ registrations[handler] < MaxHandlers
    /\ handler = "unsubscribeOnCall" => registrations[handler] = 0
    /\ game' = onUpdate(game, handler)
    /\ registrations' = [registrations EXCEPT ![handler] = @ + 1]
    /\ UNCHANGED <<match_config, table, serverVars, subscribed, fetch,
                   entityPositions, events, received, processed, frozen,
                   observed, reloading, delivered, resetFor, ring, added>>

\* A caller calls, once, the function one of its onUpdate calls returned.
UnsubscribeCall(handler) ==
    /\ registrations[handler] > 0
    /\ game' = Unsubscribed(game, handler)
    /\ registrations' = [registrations EXCEPT ![handler] = @ - 1]
    /\ UNCHANGED <<match_config, table, serverVars, subscribed, fetch,
                   entityPositions, events, received, processed, frozen,
                   observed, reloading, delivered, resetFor, ring, added>>

\* processEvent is called with an entity_changes event of one set_entity;
\* the handlers run, and the one that unsubscribes itself does so.
SetEntityCall(e) ==
    LET event == EntityChanges(1, <<SetEntity(e)>>)
        c == Notify([handlers |-> game.entityUpdateHandlers,
                     positions |-> entityPositions],
                    game.entityUpdateHandlers, e)
        called == "unsubscribeOnCall" \in Range(game.entityUpdateHandlers)
    IN  /\ ~IgnoresEvent(game, event)
        /\ game' = [ProcessEvent(game, event) EXCEPT
                       !.entityUpdateHandlers = c.handlers]
        /\ entityPositions' = c.positions
        /\ registrations' = IF called
                            THEN [registrations EXCEPT
                                     !["unsubscribeOnCall"] = 0]
                            ELSE registrations
        /\ UNCHANGED <<match_config, table, serverVars, subscribed, fetch,
                       events, received, processed, frozen, observed,
                       reloading, delivered, resetFor, ring, added>>

NextHandlers ==
    \/ \E handler \in Handlers : OnUpdateCall(handler)
    \/ \E handler \in Handlers : UnsubscribeCall(handler)
    \/ \E e \in {A1, A2, B1} : SetEntityCall(e)

SpecHandlers == Init /\ [][NextHandlers]_vars

(***************************************************************************)
(* SpecNarration: the page against any answer and any logs                 *)
(***************************************************************************)
LogKinds ==
    {"entity_death", "lightning_strike", "entity_movement", "entity_consume",
     "entity_sneeze"}
Involved == {<<>>, <<"a">>, <<"c", "b">>}
GameLogs == {GameLog(k, inv, "north_east") : k \in LogKinds, inv \in Involved}

\* game_log_stream on_data: (event) => { game.addLog(event) }
OnLog(log) ==
    /\ game' = addLog(game, log)
    /\ UNCHANGED <<match_config, table, serverVars, subscribed, fetch,
                   entityPositions, events,
                   received, processed, frozen, observed, reloading,
                   delivered, resetFor, libVars>>

\* get_match_config, .then((config) => { game.config = config })
OnMatchConfig(config) ==
    /\ game.config = {}
    /\ game' = [game EXCEPT !.config = config]
    /\ UNCHANGED <<match_config, table, serverVars, subscribed, fetch,
                   entityPositions, events,
                   received, processed, frozen, observed, reloading,
                   delivered, resetFor, libVars>>

\* The entity a of the snapshot moves off its hex, or is removed, or a
\* tick starts.
NarrationEvents ==
    {EntityChanges(1, <<SetEntity(A1)>>),
     EntityChanges(1, <<RemoveEntity("a")>>), StartOfTick(1, 1)}

NextNarration ==
    \/ \E answer \in Answers : AnswerEntityStates(answer)
    \/ EntityStatesResponse
    \/ \E event \in NarrationEvents :
          received = <<>> /\ OnData(event)
    \/ Drain
    \/ \E log \in GameLogs : Len(game.logs) < MaxLogs /\ OnLog(log)
    \/ OnMatchConfig({ConfigRow(1, 1, 0, FALSE, 1)})

\* The log stream handing the page one log after another, until the buffer
\* holds more than LOG_BUFFER_LIMIT of them.
NextLogBuffer ==
    /\ Len(game.logs) <= LOG_BUFFER_LIMIT
    /\ OnLog(GameLog("lightning_strike", <<>>, "north_east"))

SpecLogBuffer == Init /\ [][NextLogBuffer]_vars

SpecNarration == Init /\ [][NextNarration]_vars

(***************************************************************************)
(* SpecEnd: a page with a config, logs, entities and a tick is handed      *)
(* EndOfMatch                                                              *)
(***************************************************************************)
EndEvents ==
    {EntityChanges(1, <<SetEntity(A1)>>), StartOfTick(1, 1), EndOfMatch(1)}

NextEnd ==
    \/ \E answer \in Answers : AnswerEntityStates(answer)
    \/ EntityStatesResponse
    \/ OnMatchConfig({ConfigRow(1, 1, 0, FALSE, 1)})
    \/ \E event \in EndEvents : OnData(event)
    \/ Drain
    \/ /\ Len(game.logs) < MaxLogs
       /\ \E kind \in {"entity_death", "entity_movement"} :
             OnLog(GameLog(kind, <<"a">>, "north_east"))

SpecEnd == Init /\ [][NextEnd]_vars

(***************************************************************************)
(* SpecRing: a RingBuffer is constructed, items are added to it and it is  *)
(* iterated                                                                *)
(***************************************************************************)
\* The greatest size a RingBuffer is constructed with.
MaxSize == 3
\* Items added to one RingBuffer.
MaxAdds == 4
\* Items one iteration is followed for.
MaxYield == 4

RingItems == {"x", "y", "z"}
\* The argument lists of one add call.
AddArguments ==
    {<<>>} \cup {<<a>> : a \in RingItems}
           \cup {<<a, b>> : a \in RingItems, b \in RingItems}

\* new RingBuffer(size)
RingNew(size) ==
    /\ ring = NoRing
    /\ ring' = NewRingBuffer(size)
    /\ added' = <<>>
    /\ UNCHANGED <<match_config, table, serverVars, pageVars, fetch, subscribed,
                   delivered, resetFor, registrations>>

\* ring.add(...items), while no iteration is under way.
RingAdd(items) ==
    /\ ring.size > 0
    /\ ~ring.iterator.active
    /\ Len(added) + Len(items) <= MaxAdds
    /\ ring' = add(ring, items)
    /\ added' = added \o items
    /\ UNCHANGED <<match_config, table, serverVars, pageVars, fetch, subscribed,
                   delivered, resetFor, registrations>>

\* for (const item of ring): the iterator is made.
RingIterate ==
    /\ ring.size > 0
    /\ ~ring.iterator.active
    /\ ring' = [ring EXCEPT !.iterator = NewIterator(ring)]
    /\ UNCHANGED <<match_config, table, serverVars, pageVars, fetch, subscribed,
                   delivered, resetFor, registrations, added>>

\* The for-of loop asks the iterator for its next item.
RingNext ==
    /\ ring.iterator.active
    /\ ~ring.iterator.done
    /\ Len(ring.iterator.yielded) < MaxYield
    /\ ring' = [ring EXCEPT !.iterator = IteratorNext(ring)]
    /\ UNCHANGED <<match_config, table, serverVars, pageVars, fetch, subscribed,
                   delivered, resetFor, registrations, added>>

\* The for-of loop is over (the iterator is done, or the body broke out).
RingReturn ==
    /\ ring.iterator.active
    /\ ring' = [ring EXCEPT !.iterator = NoIterator]
    /\ UNCHANGED <<match_config, table, serverVars, pageVars, fetch, subscribed,
                   delivered, resetFor, registrations, added>>

NextRing ==
    \/ \E size \in 1..MaxSize : RingNew(size)
    \/ \E items \in AddArguments : RingAdd(items)
    \/ RingIterate
    \/ RingNext
    \/ RingReturn

SpecRing == Init /\ [][NextRing]_vars

(***************************************************************************)
(* Spec: the page against the server (writer, stream, get_entity_states)   *)
(***************************************************************************)
\* The stream hands an event to the page's on_data once its subscription is
\* active; there is no replay of what was emitted before.
Emit(event) ==
    IF subscribed
    THEN /\ events' = on_data(events, event)
         /\ received' = Append(received, event)
    ELSE UNCHANGED <<events, received>>

\* The scheduler creates the next match when it runs none and the lookup
\* finds none to resume; the new config names the match before it.
StartMatch(pc) ==
    /\ running = 0
    /\ started < MaxMatches
    /\ {} \in get_incomplete_match_config(match_config)
    /\ match_config' = set_match_config(match_config, started + 1, pc, started,
                                        NextInstant(match_config))
    /\ started' = started + 1
    /\ running' = started + 1
    /\ tick' = 0
    /\ Emit(StartOfMatch(started + 1))
    /\ UNCHANGED <<table, written, subscribed, fetch, game, entityPositions, processed, frozen,
                   observed, reloading, delivered, resetFor, libVars>>

StartTick ==
    /\ running # 0
    /\ tick < MaxTick
    /\ tick' = tick + 1
    /\ Emit(StartOfTick(running, tick + 1))
    /\ UNCHANGED <<match_config, table, running, started, written, subscribed, fetch, game, entityPositions,
                   processed, frozen, observed, reloading, delivered, resetFor, libVars>>

\* The writer appends one mutation of the running match and the stream
\* emits the change it makes.
WriteMutation(e, t, p) ==
    /\ running # 0
    /\ written < MaxMutations
    /\ written' = written + 1
    /\ table' = InsertRow(table, e, running, t, p)
    /\ Emit(EntityChanges(running,
              <<IF t = "S" THEN SetEntity(Entity(e, running, p))
                ELSE RemoveEntity(e)>>))
    /\ delivered' = IF subscribed
                    THEN [delivered EXCEPT !.last = NextMutationId(table)]
                    ELSE delivered
    /\ UNCHANGED <<match_config, running, started, tick, subscribed, fetch,
                   game, entityPositions, processed,
                   frozen, observed, reloading, resetFor, libVars>>

\* The scheduler ending the match without telling the stream.
EndMatchQuiet ==
    /\ running # 0
    /\ match_config' = complete_match_config(match_config, running)
    /\ running' = 0
    /\ UNCHANGED <<table, started, tick, written, subscribed, fetch, pageVars,
                   delivered, resetFor, libVars>>

\* The scheduler ends the running match: its config is completed and the
\* stream emits EndOfMatch.
EndMatch ==
    /\ running # 0
    /\ match_config' = complete_match_config(match_config, running)
    /\ running' = 0
    /\ Emit(EndOfMatch(running))
    /\ UNCHANGED <<table, started, tick, written, subscribed, fetch, game, entityPositions,
                   processed, frozen, observed, reloading, delivered, resetFor, libVars>>

\* The server registers the page's events_stream subscription.
SubscribeActive ==
    /\ ~subscribed
    /\ ~delivered.ended
    /\ subscribed' = TRUE
    /\ UNCHANGED <<match_config, table, serverVars, pageVars, fetch, delivered, resetFor, libVars>>

\* The reconstructed rows as the entities the endpoint returns.
EntitiesOf(result, m) ==
    [e \in {x[1] : x \in result} |-> Entity(e, m, AsMap(result)[e])]

\* The match a lookup result names, 0 when the result is empty.
CurrentMatch(config) ==
    IF config = {} THEN 0 ELSE (CHOOSE c \in config : TRUE).match_id

\* get_entity_states: absent when the lookup finds no current match, else
\* the snapshot of the match it found.
EntityStates(config) ==
    IF config = {} THEN Absent
    ELSE States(EntitiesOf(Reconstruct(table, CurrentMatch(config)),
                           CurrentMatch(config)))

\* The server computes the answer to the page's get_entity_states call.
ServeEntityStates ==
    /\ fetch.state = "requested"
    /\ \E config \in get_incomplete_match_config(match_config) :
          /\ fetch' = [state |-> "computed", answer |-> EntityStates(config)]
          /\ delivered' = [delivered EXCEPT
                              !.match = CurrentMatch(config),
                              !.snap = NextMutationId(table) - 1]
    /\ UNCHANGED <<match_config, table, serverVars, subscribed, pageVars,
                   resetFor, libVars>>

\* What the page itself and the server's answers to its two calls do.
PageNext ==
    \/ SubscribeActive
    \/ ServeEntityStates
    \/ EntityStatesResponse
    \/ Drain
    \/ PageReload

\* The server starting and ending matches and writing mutations.
NextSync ==
    \/ \E pc \in StreamPlayerCounts : StartMatch(pc)
    \/ EndMatch
    \/ \E e \in EntityIds :
          \/ \E p \in Payloads : WriteMutation(e, "S", p)
          \/ WriteMutation(e, "D", NULL)
    \/ PageNext

\* The writer appends a mutation and the event for it does not reach the
\* page: the stream reports an error to on_error instead. The stream then
\* either goes on delivering or has ended; the page subscribes once, when
\* it mounts.
StreamError(e, t, p) ==
    /\ running # 0
    /\ written < MaxMutations
    /\ subscribed
    /\ written' = written + 1
    /\ table' = InsertRow(table, e, running, t, p)
    /\ events' = on_error(events, "error")
    /\ \E alive \in BOOLEAN :
          /\ subscribed' = alive
          /\ delivered' = [delivered EXCEPT
                              !.error = TRUE,
                              !.lostAt = IF delivered.error THEN @
                                         ELSE Len(received),
                              !.lostId = IF delivered.error THEN @
                                         ELSE NextMutationId(table),
                              !.ended = ~alive]
    /\ UNCHANGED <<match_config, running, started, tick, fetch, game,
                   entityPositions, received, processed, frozen, observed,
                   reloading, resetFor, libVars>>

\* The server writing mutations over a stream that can fail.
NextFault ==
    \/ \E pc \in StreamPlayerCounts : StartMatch(pc)
    \/ \E e \in EntityIds :
          \/ \E p \in Payloads : WriteMutation(e, "S", p)
          \/ WriteMutation(e, "D", NULL)
          \/ \E p \in Payloads : StreamError(e, "S", p)
    \/ PageNext

SpecFault == Init /\ [][NextFault]_vars

\* The server's whole emission, as a session sees it that is open before
\* the server starts its first match and stays open.
NextStream ==
    \/ SubscribeActive
    \/ subscribed /\ \E pc \in StreamPlayerCounts : StartMatch(pc)
    \/ subscribed /\ EndMatch
    \/ subscribed /\ StartTick
    \/ subscribed /\ WriteMutation("a", "S", "p1")

SpecStream == Init /\ [][NextStream]_vars

\* The server starting and ending matches and starting ticks.
NextTick ==
    \/ \E pc \in StreamPlayerCounts : StartMatch(pc)
    \/ EndMatch
    \/ StartTick
    \/ PageNext

Next == NextSync \/ NextTick \/ NextFault \/ NextStream

SpecSync == Init /\ [][NextSync]_vars
SpecTick == Init /\ [][NextTick]_vars
Spec == Init /\ [][Next]_vars

(***************************************************************************)
(* SpecRegistry: the scheduler creating, saving, completing and resuming   *)
(* matches across restarts of the server, and a page asking for the        *)
(* entity states                                                           *)
(***************************************************************************)
\* The server saves the config of the match it holds again, with another
\* player count; the other columns go back as they were read.
ResaveConfig(pc) ==
    /\ running # 0
    /\ \E r \in match_config :
          /\ r.match_id = running
          /\ match_config' = set_match_config(match_config, running, pc,
                                 r.preceding_match_id, r.created_at)
    /\ UNCHANGED <<table, serverVars, subscribed, pageVars, fetch, delivered,
                   resetFor, libVars>>

\* The server process stops: what it held in memory is gone.
Crash ==
    /\ running # 0
    /\ running' = 0
    /\ tick' = 0
    /\ UNCHANGED <<match_config, table, started, written, subscribed, pageVars,
                   fetch, delivered, resetFor, libVars>>

\* At startup the lookup finds an incomplete match and the server resumes it.
Resume ==
    /\ running = 0
    /\ \E config \in get_incomplete_match_config(match_config) :
          /\ config # {}
          /\ running' = CurrentMatch(config)
    /\ UNCHANGED <<match_config, table, started, tick, written, subscribed,
                   pageVars, fetch, delivered, resetFor, libVars>>

NextRegistry ==
    \/ \E pc \in PlayerCounts : StartMatch(pc)
    \/ \E pc \in PlayerCounts : ResaveConfig(pc)
    \/ EndMatch
    \/ Crash
    \/ Resume
    \/ StartTick
    \/ ServeEntityStates
    \/ EntityStatesResponse

SpecRegistry == Init /\ [][NextRegistry]_vars

(***************************************************************************)
(* Claims about the mutation log (SpecLog)                                 *)
(***************************************************************************)
Snapshot(m) == Reconstruct(table, m)

\* C1: for every match, the reconstruction query returns one row per entity
\* and, read as a map, exactly the map obtained by folding the match's
\* mutations in mutation_id order into an empty map (Set overwrites, Delete
\* erases).
C1_ReconstructionIsReplay ==
    \A m \in MatchIds :
        /\ Cardinality(Snapshot(m)) = Cardinality({x[1] : x \in Snapshot(m)})
        /\ AsMap(Snapshot(m)) = Replay(match_mutations(table, m), EmptyMap)

\* A log where an entity was deleted and later set again, after three appends.
C1_Witness ==
    /\ written = MaxAppends
    /\ \E m \in MatchIds : \E r1, r2 \in match_mutations(table, m) :
          /\ r1.entity_id = r2.entity_id
          /\ r1.mutation_id < r2.mutation_id
          /\ r1.mutation_type = "D"
          /\ r2.mutation_type = "S"
          /\ r2.entity_id \in DOMAIN AsMap(Snapshot(m))

\* The rows of entity e in match m, and the one with the greatest mutation_id.
RowsOf(e, m) == {r \in table : r.entity_id = e /\ r.match_id = m}
LastOf(e, m) ==
    CHOOSE r \in RowsOf(e, m) : \A q \in RowsOf(e, m) : q.mutation_id <= r.mutation_id

\* C3: the snapshot of a match holds an entity with exactly the payload of
\* its highest-mutation_id row when that row is a Set, and omits it when that
\* row is a Delete or the entity has no row in the match; the test fixture
\* (Set a, Set b, Set c, Delete c) yields a and b and not c.
C3_LatestSetOrAbsent ==
    /\ \A m \in MatchIds, e \in LogEntityIds :
          IF RowsOf(e, m) # {} /\ LastOf(e, m).mutation_type = "S"
          THEN <<e, LastOf(e, m).payload>> \in Snapshot(m)
               /\ \A x \in Snapshot(m) : x[1] = e => x[2] = LastOf(e, m).payload
          ELSE \A x \in Snapshot(m) : x[1] # e
    /\ table = TestFixture => Snapshot(1) = {<<"a", "p1">>, <<"b", "p2">>}

\* An appended Delete is the latest row of an entity that was set before, and
\* another entity of the same match is still in the snapshot.
C3_Witness ==
    /\ written > 0
    /\ \E m \in MatchIds, e \in LogEntityIds :
          /\ RowsOf(e, m) # {}
          /\ LastOf(e, m).mutation_type = "D"
          /\ LastOf(e, m).mutation_id = NextMutationId(table) - 1
          /\ \E r \in RowsOf(e, m) : r.mutation_type = "S"
          /\ Snapshot(m) # {}

(***************************************************************************)
(* Claims about the store (SpecStore)                                      *)
(***************************************************************************)
\* C16: a step that changes the log adds exactly one row, with a
\* mutation_id greater than every mutation_id in the log, and leaves every
\* row of the log in place and unchanged.
C16_AppendOnly ==
    [][table' # table =>
          \E r \in table' :
              /\ r \notin table
              /\ table' = table \cup {r}
              /\ \A q \in table : q.mutation_id < r.mutation_id]_vars

\* A row of another entity and another match was appended after a row.
C16_Witness ==
    \E r, q \in table :
        /\ r.entity_id # q.entity_id
        /\ r.match_id # q.match_id
        /\ r.mutation_id < q.mutation_id

\* C17: a row of the log has a payload exactly when it is a Set row.
C17_PayloadIffSet ==
    \A r \in table : (r.payload # NULL) <=> (r.mutation_type = "S")

\* The instants a timestamp can take.
Timestamps == {1, 2}

\* Every assignment of timestamps to the rows of the log.
Stampings == [{r.mutation_id : r \in table} -> Timestamps]

\* C18: whatever the timestamps of the rows are, the snapshot of every
\* match is the one of the log whose rows all carry the same timestamp.
C18_TimestampsIgnored ==
    \A m \in MatchIds, ts \in Stampings :
        Reconstruct(WithTimestamps(table, ts), m)
          = Reconstruct(WithTimestamps(table, [i \in DOMAIN ts |-> 1]), m)

\* An entity has two rows whose outcome depends on their order.
C18_Witness ==
    \E r, q \in table :
        /\ r.entity_id = q.entity_id /\ r.match_id = q.match_id
        /\ r.mutation_id < q.mutation_id
        /\ <<r.mutation_type, r.payload>> # <<q.mutation_type, q.payload>>

\* C19: an append of rows of other matches leaves the snapshot of a match
\* as it was.
C19_MatchesIndependent ==
    [][\A m \in MatchIds :
          (\A r \in table' \ table : r.match_id # m)
             => Reconstruct(table', m) = Reconstruct(table, m)]_vars

\* The same entity_id is used in two matches, with different snapshots.
C19_Witness ==
    \E r, q \in table :
        /\ r.entity_id = q.entity_id
        /\ r.match_id # q.match_id
        /\ Reconstruct(table, r.match_id) # Reconstruct(table, q.match_id)

(***************************************************************************)
(* Claims about match_config (SpecConfigs, SpecRegistry)                   *)
(***************************************************************************)
\* The configs with complete = false.
Incomplete == {r \in match_config : ~r.complete}

\* The configs no config was created after.
MostRecent ==
    {r \in match_config : \A q \in match_config : q.created_at <= r.created_at}

\* The incomplete configs no incomplete config was created after.
NewestIncomplete ==
    {r \in Incomplete : \A q \in Incomplete : q.created_at <= r.created_at}

\* No two configs were created at the same instant.
DistinctTimes ==
    \A r, q \in match_config : r.created_at = q.created_at => r = q

\* C12 as stated: for configs created at distinct instants the lookup
\* returns the incomplete config with the greatest creation time, and
\* nothing only when no config is incomplete.
C12_NewestIncompleteFound ==
    DistinctTimes =>
        \A result \in get_incomplete_match_config(match_config) :
            IF Incomplete = {} THEN result = {}
            ELSE \E r \in NewestIncomplete : result = {SelectConfig(r)}

\* C12 amended: a config the lookup returns is the incomplete config with
\* the greatest creation time, and the lookup returns nothing only when
\* there is no config or a most recently created config is complete.
C12_LatestIfIncomplete ==
    \A result \in get_incomplete_match_config(match_config) :
        IF result = {}
        THEN match_config = {} \/ \E r \in MostRecent : r.complete
        ELSE \E r \in NewestIncomplete : result = {SelectConfig(r)}

\* An older config is incomplete, the most recent one is complete, and the
\* lookup returns nothing.
C12_Witness ==
    /\ Incomplete # {}
    /\ \A r \in MostRecent : r.complete
    /\ get_incomplete_match_config(match_config) = {{}}

\* C13: the lookup never returns a config other than a most recently
\* created one, and it returns nothing whenever the most recently created
\* config is complete.
C13_CurrentIsMostRecent ==
    \A result \in get_incomplete_match_config(match_config) :
        /\ \A c \in result : \E r \in MostRecent : r.match_id = c.match_id
        /\ (\A r \in MostRecent : r.complete) => result = {}

\* Two configs, the older complete and the newer not: the lookup returns
\* the newer one.
C13_Witness ==
    /\ \E r \in match_config : r.complete /\ r \notin MostRecent
    /\ \E r \in MostRecent :
          /\ ~r.complete
          /\ {SelectConfig(r)} \in get_incomplete_match_config(match_config)

\* C14: a config that is complete is complete after every step.
C14_CompleteNeverReverts ==
    [][\A r \in match_config :
          r.complete =>
             \E q \in match_config' : q.match_id = r.match_id /\ q.complete]_vars

\* A complete config carrying what an upsert wrote (another player count,
\* a preceding match, the last instant).
C14_Witness ==
    \E r \in match_config :
        /\ r.complete
        /\ r.player_count = 2
        /\ r.preceding_match_id # 0
        /\ r.created_at = MaxTime

ConfigOf(rows, id) == CHOOSE r \in rows : r.match_id = id

\* The ids of the configs no config of rows was created after.
CurrentIds(rows) ==
    {r.match_id : r \in {x \in rows : \A q \in rows : q.created_at <= x.created_at}}

\* C36: set_match_config run for a match_id that is stored leaves one config
\* per stored id, leaves that config's complete flag as it was, leaves every
\* pair of configs in the order of creation they were in, and so leaves the
\* most recently created match the same.
C36_UpsertKeepsOrder ==
    [][\A id \in MatchIds, pc \in PlayerCounts, prec \in Preceding, at \in Times :
          (SetMatchConfig(id, pc, prec, at) /\ \E r \in match_config : r.match_id = id)
          => /\ {r.match_id : r \in match_config'} = {r.match_id : r \in match_config}
             /\ Cardinality(match_config') = Cardinality(match_config)
             /\ ConfigOf(match_config', id).complete = ConfigOf(match_config, id).complete
             /\ \A r, q \in match_config :
                   (r.created_at < q.created_at)
                   <=> (ConfigOf(match_config', r.match_id).created_at
                          < ConfigOf(match_config', q.match_id).created_at)
             /\ CurrentIds(match_config') = CurrentIds(match_config)]_vars

(***************************************************************************)
(* Claims about narration (SpecNarration)                                  *)
(***************************************************************************)
\* The kinds every observer is shown.
BroadcastKinds == {"entity_death", "lightning_strike"}

\* C20: a log is classified global exactly when it involves no entity or
\* its kind is a broadcast kind, and local otherwise, whatever the
\* projection held when it was added.
C20_LevelByKindAndInvolved ==
    \A i \in DOMAIN game.logs :
        game.logs[i].level =
            IF \/ Len(game.logs[i].involved_entities) = 0
               \/ game.logs[i].kind \in BroadcastKinds
            THEN "global" ELSE "local"

\* A loaded projection holds an entity_death log with no involved entity,
\* classified global, and an entity_movement log with one involved entity,
\* classified local.
C20_Witness ==
    /\ game.loaded /\ game.entities # EmptyMap
    /\ \E i, j \in DOMAIN game.logs :
          /\ game.logs[i].kind = "entity_death"
          /\ game.logs[i].involved_entities = <<>>
          /\ game.logs[i].level = "global"
          /\ game.logs[j].kind = "entity_movement"
          /\ game.logs[j].involved_entities = <<"a">>
          /\ game.logs[j].level = "local"

\* What an observer can focus on.
Focuses ==
    {NoFocus} \cup {EntityFocus(id) : id \in LogEntityIds}
              \cup {HexFocus(hex) : hex \in {<<0, 1>>, <<1, 0>>}}

\* The entities of g that lie on the hex.
Occupants(g, hex) ==
    {id \in DOMAIN g.entities : EntityHex(g.entities[id]) = hex}

Unresolved(log, g, i) ==
    /\ i \in DOMAIN log.involved_entities
    /\ log.involved_entities[i] \notin DOMAIN g.entities

\* The kinds of the model whose template starts with the primary name.
PrimaryKinds == {"entity_movement", "entity_consume", "entity_death"}

\* C22: when a log of a narrated kind arrives whose primary or secondary
\* entity is not in the projection, the entry added for it carries a
\* message in which "Someone" stands where that entity's name would.
C22_UnresolvedNamesReplaced ==
    [][\A log \in GameLogs :
          (OnLog(log) /\ log.kind \in PrimaryKinds) =>
              LET entry == game'.logs[Len(game'.logs)]
              IN  /\ entry.message # Undefined
                  /\ entry.message # <<"...">>
                  /\ Unresolved(log, game, 1) =>
                        entry.message[1] = "Someone"
                  /\ (Unresolved(log, game, 2) /\ log.kind = "entity_consume")
                        => entry.message[3] = "Someone"]_vars

\* Entity a was narrated by name, and after its removal as "Someone";
\* or neither entity of a consume log is known.
C22_Witness ==
    \/ /\ Len(game.logs) = 2
       /\ game.logs[1].involved_entities = <<"a">>
       /\ game.logs[2].involved_entities = <<"a">>
       /\ game.logs[1].kind = "entity_death"
       /\ game.logs[2].kind = "entity_death"
       /\ game.logs[1].message = <<"Full Entity", " has died">>
       /\ game.logs[2].message = <<"Someone", " has died">>
       /\ game.loaded
       /\ "a" \notin DOMAIN game.entities
    \/ /\ Len(game.logs) = 1
       /\ game.logs[1].message = <<"Someone", " consumed a ", "Someone">>

\* Does logMessage have a template for the kind?
HasTemplate(kind) ==
    logMessage(GameLog(kind, <<>>, "north_east"), NewGame) # Undefined

C29_LogsDoNotFeedBack ==
    [][\A log \in GameLogs :
          OnLog(log) =>
              /\ game'.entities = game.entities
              /\ game'.tickId = game.tickId
              /\ game'.loaded = game.loaded
              /\ game'.waitingForStart = game.waitingForStart
              /\ game'.config = game.config
              /\ game'.entityUpdateHandlers = game.entityUpdateHandlers
              /\ Len(game'.logs) = Len(game.logs) + 1
              /\ SubSeq(game'.logs, 1, Len(game.logs)) = game.logs
              /\ entityPositions' = entityPositions]_vars

\* The death of entity a was logged to a loaded Game that has its config
\* and a tick, and a is still in the entity map.
C29_Witness ==
    /\ game.loaded
    /\ game.config # {}
    /\ game.tickId = 1
    /\ "a" \in DOMAIN game.entities
    /\ \E l \in Range(game.logs) :
          /\ l.kind = "entity_death"
          /\ l.involved_entities = <<"a">>
          /\ l.message = <<"Full Entity", " has died">>

(***************************************************************************)
(* Claims about the client projection (SpecClient)                         *)
(***************************************************************************)
\* C28: every id in entityPositions is in the entity map, with the cached
\* hex as its hex there.
C28_PositionsFollowMap ==
    \A id \in DOMAIN entityPositions :
        /\ id \in DOMAIN game.entities
        /\ EntityHex(game.entities[id]) = entityPositions[id]

\* The events of the buffer up to and with its first StartOfMatch, all of
\* them when it holds none, and none when a reload is already asked for.
UntilStartOfMatch(buf) ==
    IF reloading THEN <<>>
    ELSE IF \E i \in DOMAIN buf : buf[i].kind = "start_of_match"
    THEN SubSeq(buf, 1, CHOOSE i \in DOMAIN buf :
                           /\ buf[i].kind = "start_of_match"
                           /\ \A j \in 1..(i - 1) :
                                 buf[j].kind # "start_of_match")
    ELSE buf

\* C33: a firing of the drain changes the entity map and tickId by the
\* events up to the first StartOfMatch only; the events behind it, and
\* every event once the reload is asked for, change neither.
C33_NothingFoldedAfterStart ==
    [][Drain =>
          LET c == DrainAll([game |-> game,
                             entityPositions |-> entityPositions,
                             reloading |-> reloading,
                             processed |-> processed, frozen |-> frozen,
                             observed |-> observed],
                            UntilStartOfMatch(events))
          IN  /\ game'.entities = c.game.entities
              /\ game'.tickId = c.game.tickId]_vars

\* The kinds processEvent has a branch for.
KnownKinds ==
    {"start_of_match", "start_of_tick", "entity_changes", "end_of_match"}

\* The buffer without the events of other kinds.
KnownOnly(buf) == SelectSeq(buf, LAMBDA event : event.kind \in KnownKinds)

\* C24: an event of a kind processEvent has no branch for changes nothing
\* in the Game and asks for no reload, and a firing of the drain leaves the
\* Game, the positions and the reload request as it would leave them had
\* the buffer not held the events of such kinds.
C24_UnknownKindIsNoOp ==
    [][Drain =>
          LET c == [game |-> game, entityPositions |-> entityPositions,
                    reloading |-> reloading, processed |-> processed,
                    frozen |-> frozen, observed |-> observed]
              all == DrainAll(c, events)
              known == DrainAll(c, KnownOnly(events))
          IN  /\ game' = known.game
              /\ entityPositions' = known.entityPositions
              /\ reloading' = known.reloading
              /\ all.frozen = known.frozen
              /\ all.observed = known.observed
              /\ \A event \in Range(events) :
                    event.kind \notin KnownKinds =>
                        /\ ProcessEvent(game, event) = game
                        /\ ProcessEvent(game', event) = game'
                        /\ ~CallsReload(event)]_vars

\* An event of another kind was processed by a loaded, running Game, and
\* the entity change that followed it was applied.
C24_Witness ==
    /\ game.loaded
    /\ ~game.waitingForStart
    /\ \E i \in DOMAIN processed :
          /\ processed[i].kind \notin KnownKinds
          /\ i < Len(processed)
          /\ processed[i + 1] = EntityChanges(1, <<SetEntity(A1)>>)
    /\ "a" \in DOMAIN game.entities
    /\ game.entities["a"] = A1

Handed(kind) == \E i \in DOMAIN processed : processed[i].kind = kind
Live == game.loaded /\ ~game.waitingForStart
\* This step is one firing of the drain callback.
DrainStep == events # <<>> /\ events' = <<>> /\ processed' = processed \o events

\* C5 as stated: the three states exclude each other, so loaded and
\* waitingForStart are never both true, and a projection that has processed
\* EndOfMatch is no longer Live (not loaded).
C5_FlagsExclusive ==
    /\ ~(game.loaded /\ game.waitingForStart)
    /\ frozen.set => (game.waitingForStart /\ ~game.loaded)

\* C5 amended: once EndOfMatch has been handed to processEvent the projection
\* waits for a start (waitingForStart is true); loaded is true exactly when
\* a present snapshot was applied and stays true after EndOfMatch; both flags
\* are true only after an EndOfMatch was processed.
C5_EndOfMatchWaits ==
    /\ Handed("end_of_match") => game.waitingForStart
    /\ game.loaded = (fetch.state = "done" /\ fetch.answer.present)
    /\ (game.loaded /\ game.waitingForStart) => Handed("end_of_match")

\* EndOfMatch was processed by a Live projection: both flags are now true.
C5_Witness ==
    /\ frozen.set
    /\ game.loaded
    /\ game.waitingForStart
    /\ processed[1].kind = "entity_changes"

\* C6: after EndOfMatch was processed, entities and tickId stay what they
\* were at that moment, whatever EntityChanges or StartOfTick events are
\* processed afterwards (until the page is replaced).
C6_QuietAfterEnd ==
    frozen.set => /\ game.entities = frozen.entities
                  /\ game.tickId = frozen.tickId

\* After EndOfMatch the projection was handed a StartOfTick with another
\* tick id and an EntityChanges setting an entity it does not hold.
C6_Witness ==
    \E i, j, k \in DOMAIN processed :
        /\ i < j /\ i < k
        /\ processed[i].kind = "end_of_match"
        /\ processed[j].kind = "start_of_tick"
        /\ processed[j].tick_id # game.tickId
        /\ processed[k].kind = "entity_changes"
        /\ processed[k].changes[1].kind = "set_entity"
        /\ processed[k].changes[1].entity_id \notin DOMAIN game.entities

\* C7: the events given to on_data are handed to processEvent once each and
\* in arrival order: what was handed over, followed by what is still
\* buffered, is exactly what arrived.
C7_FifoOnce == received = processed \o events

\* Two different events were processed in two drains (the second arrived
\* after the first drain) and a third is waiting in the buffer.
C7_Witness ==
    /\ Len(processed) = 2
    /\ processed[1] # processed[2]
    /\ Len(events) = 1
    /\ events[1] # processed[2]
    /\ game.loaded

RECURSIVE AllChanges(_)
AllChanges(evs) ==
    IF evs = <<>> THEN <<>> ELSE Head(evs).changes \o AllChanges(Tail(evs))

\* The index of the last change of chs that names id, 0 when none does.
LastIndex(chs, id) ==
    IF \E i \in DOMAIN chs : chs[i].entity_id = id
    THEN Max({i \in DOMAIN chs : chs[i].entity_id = id}) ELSE 0

\* C8: a drain of EntityChanges events by a Live projection applies the
\* changes in list order: per id the last change naming it decides (a set
\* leaves exactly that entity, a remove leaves no entry), every id no change
\* names keeps its entry, and nothing but entities changes; a single
\* RemoveEntity of a present id shrinks the map by exactly one and of an
\* absent id changes nothing.
C8_ChangesInOrder ==
    [][(DrainStep /\ Live
        /\ \A i \in DOMAIN events : events[i].kind = "entity_changes")
       => LET chs == AllChanges(events)
              old == game.entities
              new == game'.entities
          IN  /\ game' = [game EXCEPT !.entities = new]
              /\ DOMAIN new \subseteq DOMAIN old \cup EntityIds
              /\ \A id \in DOMAIN old \cup EntityIds :
                    LET k == LastIndex(chs, id)
                    IN  IF k = 0
                        THEN /\ (id \in DOMAIN new) = (id \in DOMAIN old)
                             /\ id \in DOMAIN old => new[id] = old[id]
                        ELSE IF chs[k].kind = "set_entity"
                        THEN id \in DOMAIN new /\ new[id] = chs[k].entity
                        ELSE id \notin DOMAIN new
              /\ (Len(chs) = 1 /\ chs[1].kind = "remove_entity")
                 => IF chs[1].entity_id \in DOMAIN old
                    THEN Cardinality(DOMAIN new) = Cardinality(DOMAIN old) - 1
                    ELSE new = old]_vars

\* A Live projection holding a and b has processed [SetEntity(a),
\* RemoveEntity(a)]: a is gone, b is untouched.
C8_Witness ==
    /\ Live
    /\ Len(processed) = 1
    /\ processed[1] = EntityChanges(1, <<SetEntity(A1), RemoveEntity("a")>>)
    /\ DOMAIN game.entities = {"b"}
    /\ game.entities["b"] = B1

IsSingleSet(event) ==
    /\ event.kind = "entity_changes"
    /\ Len(event.changes) = 1
    /\ event.changes[1].kind = "set_entity"

\* C9: when a Live projection processes the SetEntity event it processed
\* last once more, the entity map does not change; and processing it twice
\* in one drain leaves the map that one application leaves.
C9_SetIsIdempotent ==
    [][(DrainStep /\ Live /\ IsSingleSet(events[1]))
       => LET e == events[1].changes[1].entity
          IN  /\ (Len(events) = 1 /\ processed # <<>>
                  /\ processed[Len(processed)] = events[1])
                 => game'.entities = game.entities
              /\ (Len(events) = 2 /\ events[2] = events[1])
                 => game'.entities =
                      [x \in DOMAIN game.entities \cup {e.entity_id} |->
                          IF x = e.entity_id THEN e ELSE game.entities[x]]
      ]_vars

\* The same SetEntity event was processed twice in a row by a Live projection.
C9_Witness ==
    /\ Live
    /\ Len(processed) >= 2
    /\ IsSingleSet(processed[1])
    /\ processed[2] = processed[1]
    /\ game.entities["a"] = A1

(***************************************************************************)
(* Claims about the page and the server together (SpecSync, SpecTick,      *)
(* SpecRegistry)                                                           *)
(***************************************************************************)
\* The rows with a mutation_id up to k.
Prefix(k) == {r \in table : r.mutation_id <= k}

\* C2: once the snapshot has been applied and the buffer is drained, the
\* entity map is the snapshot of the log prefix up to the last mutation the
\* page has seen (the later of the snapshot's cutoff and the last mutation
\* whose event was delivered).
C2_ProjectionIsSnapshot ==
    (fetch.state = "done" /\ Live /\ events = <<>> /\ ~reloading)
    => game.entities =
         EntitiesOf(Reconstruct(Prefix(Max({delivered.snap, delivered.last})),
                                delivered.match),
                    delivered.match)

\* C4: the entity map never holds entities of two matches at once, and a
\* page that was reloaded by the StartOfMatch of match m holds no entity of
\* a match before m.
C4_NoEntityAcrossMatches ==
    /\ \A x, y \in DOMAIN game.entities :
          game.entities[x].match = game.entities[y].match
    /\ \A x \in DOMAIN game.entities : game.entities[x].match >= resetFor

\* C11: get_entity_states answers absent exactly when no match is running
\* (no config is incomplete) and an entity list otherwise; on absent the
\* page becomes WaitingForStart, on a list (the empty one too) it becomes
\* Live with the entities of the list.
C11_AbsentIffNoMatch ==
    [][/\ (fetch.state = "requested" /\ fetch'.state = "computed")
            => /\ (fetch'.answer = Absent) <=> (Incomplete = {})
               /\ fetch'.answer # Absent => fetch'.answer.present
       /\ (fetch.state = "computed" /\ fetch'.state = "done")
            => IF fetch.answer = Absent
               THEN /\ game'.waitingForStart /\ ~game'.loaded
                    /\ game'.entities = game.entities
               ELSE /\ game'.loaded /\ ~game'.waitingForStart
                    /\ game'.entities = fetch.answer.states]_vars

\* A match runs with no entity: the answer was the empty list and the page
\* is Live with an empty map.
C11_Witness ==
    /\ Incomplete # {}
    /\ fetch.state = "done"
    /\ fetch.answer = States(EmptyMap)
    /\ game.loaded /\ ~game.waitingForStart
    /\ game.entities = EmptyMap

\* C10: the values StartOfTick events assign to tickId on one page are
\* strictly increasing.
C10_TicksIncrease ==
    \A i, j \in DOMAIN observed : i < j => observed[i] < observed[j]

\* Two StartOfTick events that sat in the buffer together were applied.
C10_Witness ==
    /\ Len(observed) >= 2
    /\ \E i \in DOMAIN processed :
          /\ i < Len(processed)
          /\ processed[i].kind = "start_of_tick"
          /\ processed[i + 1].kind = "start_of_tick"

\* What the buffer held before the stream's first error, of the events
\* still in it.
ReceivedBeforeError ==
    SubSeq(events, 1, delivered.lostAt - Len(processed))

\* The page's snapshot was computed before the mutation whose event the
\* stream lost was written: the projection has missed that mutation.
MissedEvent ==
    /\ delivered.error
    /\ fetch.state = "done"
    /\ delivered.snap < delivered.lostId

\* C25 (the part a finite run decides): once the projection has missed an
\* event to a stream error, a firing of the drain folds no event received
\* after the error onto it: it leaves the Game as the events received
\* before the error leave it.
C25_NoFoldAfterError ==
    [][(MissedEvent /\ Drain) =>
          game' = DrainAll([game |-> game,
                            entityPositions |-> entityPositions,
                            reloading |-> reloading,
                            processed |-> processed, frozen |-> frozen,
                            observed |-> observed],
                           ReceivedBeforeError).game]_vars

\* The page's fetch was answered absent and applied: WaitingForStart.
WaitingAfterAbsent ==
    /\ fetch.state = "done"
    /\ ~fetch.answer.present
    /\ game.waitingForStart
    /\ ~game.loaded
    /\ ~reloading

\* C30 (the part a finite run decides): when a page that waits after an
\* absent answer is subscribed and a match runs, the StartOfMatch of that
\* match, which the stream emits once, has reached the page: only that
\* event takes the page to Loading.
C30_WaitingHearsStart ==
    (WaitingAfterAbsent /\ subscribed /\ running # 0) =>
        StartOfMatch(running) \in Range(received)

\* Loading: the snapshot has not been applied and the page does not wait
\* for a start.
Loading == ~game.loaded /\ ~game.waitingForStart

\* C31: while the page is Loading no event has been handed to processEvent
\* and the buffer holds every event received, in arrival order; so an
\* event is processed only once the page is loaded or waits for a start.
C31_LoadingKeepsBuffer ==
    Loading =>
        /\ processed = <<>>
        /\ events = received
        /\ observed = <<>>
        /\ game.entities = EmptyMap
        /\ ~reloading

\* Two events have arrived while the snapshot, already computed by the
\* server, is on its way: both wait in the buffer.
C31_Witness ==
    /\ Loading
    /\ fetch.state = "computed"
    /\ fetch.answer.present
    /\ events = <<EntityChanges(1, <<SetEntity(B1)>>),
                  EntityChanges(1, <<RemoveEntity("a")>>)>>

\* C34: a page that is Loading is later not Loading.
C34_LoadingEnds == Loading ~> ~Loading

(***************************************************************************)
(* Claims about the log buffer (SpecLogBuffer)                             *)
(***************************************************************************)
\* C26: the buffer never holds more than LOG_BUFFER_LIMIT logs.
C26_LogsBounded == Len(game.logs) <= LOG_BUFFER_LIMIT

(***************************************************************************)
(* Claims about the stream's emission (SpecStream)                         *)
(***************************************************************************)
\* Where in the stream the events of the kind and match are.
Positions(kind, m) ==
    {i \in DOMAIN received : received[i].kind = kind /\ received[i].match = m}

\* C27: every match started has exactly one StartOfMatch in the stream,
\* every match ended exactly one EndOfMatch and the running match none;
\* every event of a match lies between the two; and the event after an
\* EndOfMatch is a StartOfMatch.
C27_MatchBracketed ==
    /\ \A m \in 1..started :
          /\ Cardinality(Positions("start_of_match", m)) = 1
          /\ Cardinality(Positions("end_of_match", m))
                = IF m = running THEN 0 ELSE 1
          /\ \A i \in DOMAIN received :
                received[i].match = m =>
                    /\ \A j \in Positions("start_of_match", m) : j <= i
                    /\ \A j \in Positions("end_of_match", m) : i <= j
    /\ \A i \in DOMAIN received : received[i].match \in 1..started
    /\ \A i \in DOMAIN received :
          (received[i].kind = "end_of_match" /\ i < Len(received)) =>
              received[i + 1].kind = "start_of_match"

\* A match with entity changes has ended, the next match has started
\* right after its EndOfMatch, and has entity changes of its own.
C27_Witness ==
    \E i \in DOMAIN received :
        /\ received[i] = EndOfMatch(1)
        /\ i + 1 < Len(received)
        /\ received[i + 1] = StartOfMatch(2)
        /\ \E j \in 1..(i - 1) : received[j].kind = "entity_changes"
        /\ \E k \in (i + 2)..Len(received) :
              received[k].kind = "entity_changes"

(***************************************************************************)
(* Claims about the update handlers (SpecHandlers)                         *)
(***************************************************************************)
\* How many entries of the handlers array are the handler.
Entries(g, handler) ==
    Len(SelectSeq(g.entityUpdateHandlers, LAMBDA h : h = handler))

\* C32 as stated: an unsubscribe takes out the one registration it was
\* returned for, so the array holds an entry for every onUpdate call that
\* has not been unsubscribed.
C32_OneEntryPerRegistration ==
    \A handler \in Handlers : Entries(game, handler) = registrations[handler]

\* C32 amended: an unsubscribe takes every entry of its handler out of the
\* array and leaves the entries of other handlers as they were; a
\* set_entity invokes the handlers that are in the array when its loop
\* starts, all of them also when one unsubscribes during the loop, and no
\* handler that is not in the array.
C32_UnsubscribeRemovesHandler ==
    [][/\ \A handler \in Handlers :
             UnsubscribeCall(handler) =>
                 /\ Entries(game', handler) = 0
                 /\ \A other \in Handlers \ {handler} :
                       Entries(game', other) = Entries(game, other)
                 /\ entityPositions' = entityPositions
       /\ \A e \in {A1, A2, B1} :
             SetEntityCall(e) =>
                 /\ entityPositions' =
                       IF Entries(game, "updateEntityPosition") > 0
                       THEN updateEntityPosition(entityPositions, e)
                       ELSE entityPositions
                 /\ Entries(game', "unsubscribeOnCall") = 0
                 /\ Entries(game', "updateEntityPosition")
                       = Entries(game, "updateEntityPosition")]_vars

\* updateEntityPosition was registered twice and unsubscribed once: it is
\* no longer in the array and the entity set since has no position.
C32_Witness ==
    /\ registrations["updateEntityPosition"] = 1
    /\ Entries(game, "updateEntityPosition") = 0
    /\ "a" \in DOMAIN game.entities
    /\ game.entities["a"] = A2
    /\ "a" \notin DOMAIN entityPositions

(***************************************************************************)
(* Claims about the end of a match (SpecEnd)                               *)
(***************************************************************************)
\* C35: in every firing of the drain, the Game after an EndOfMatch is the
\* Game before it with waitingForStart true: entities, tickId, logs,
\* config and the other fields are as they were, and so are the positions.
C35_EndOfMatchOnlyWaits ==
    [][Drain =>
          LET c == [game |-> game, entityPositions |-> entityPositions,
                    reloading |-> reloading, processed |-> processed,
                    frozen |-> frozen, observed |-> observed]
          IN  \A i \in DOMAIN events :
                  events[i].kind = "end_of_match" =>
                      LET before == DrainAll(c, SubSeq(events, 1, i - 1))
                          after == DrainAll(c, SubSeq(events, 1, i))
                      IN  /\ after.game =
                                [before.game EXCEPT !.waitingForStart = TRUE]
                          /\ after.entityPositions = before.entityPositions
                          /\ after.reloading = before.reloading]_vars

\* EndOfMatch was processed by a Live Game with an entity, a tick, a log
\* and a config, and all four are still there.
C35_Witness ==
    /\ frozen.set
    /\ game.waitingForStart
    /\ game.loaded
    /\ processed[Len(processed)] = EndOfMatch(1)
    /\ game.entities = frozen.entities
    /\ "a" \in DOMAIN game.entities
    /\ game.tickId = 1
    /\ Len(game.logs) = 1
    /\ game.config # {}

(***************************************************************************)
(* Claims about RingBuffer (SpecRing)                                      *)
(***************************************************************************)
\* The last n items of a sequence (all of it when it is shorter).
Last(seq, n) == SubSeq(seq, Len(seq) - Min(Len(seq), n) + 1, Len(seq))

\* C37: after any sequence of add calls on a RingBuffer of size n >= 1 the
\* buffer stores at most n items, 0 <= pos < n, the stored items from the
\* oldest on are the last min(k, n) of the k items added, and once the
\* buffer is full pos is the slot of the oldest stored item.
C37_RingKeepsLastItems ==
    ring.size >= 1 =>
        /\ Len(ring.items) <= ring.size
        /\ 0 <= ring.pos /\ ring.pos < ring.size
        /\ Len(ring.items) = Min(Len(added), ring.size)
        /\ toArray(ring) = Last(added, ring.size)
        /\ Len(ring.items) = ring.size =>
               ring.items[ring.pos + 1] = added[Len(added) - ring.size + 1]

\* Four items were added to a RingBuffer of size 3 in more than one call:
\* it is full and has wrapped, the next add overwrites the second item.
C37_Witness ==
    /\ ring.size = 3
    /\ Len(added) = 4
    /\ ring.pos = 1
    /\ ring.items = <<added[4], added[2], added[3]>>
    /\ added[4] # added[1]

\* C38: an iteration of a RingBuffer never yields more items than the
\* buffer stores, and when it is over it has yielded the stored items,
\* each once, oldest first.
C38_IterationYieldsStored ==
    ring.iterator.active =>
        /\ Len(ring.iterator.yielded) <= Len(ring.items)
        /\ ring.iterator.done => ring.iterator.yielded = toArray(ring)

(***************************************************************************)
(* Claims about the ids of the logs (SpecNarration)                        *)
(***************************************************************************)
\* C39: no two entries of logs share an id, and every entry's id is greater
\* than the id of every entry added before it.
C39_LogIdsIncrease ==
    \A i, j \in 1..Len(game.logs) :
        /\ i # j => game.logs[i].id # game.logs[j].id
        /\ i < j => game.logs[i].id < game.logs[j].id

\* Two logs of the same content were added, with entity changes processed
\* in the session: they carry different ids.
C39_Witness ==
    /\ Len(game.logs) >= 2
    /\ game.logs[1].kind = game.logs[2].kind
    /\ game.logs[1].involved_entities = game.logs[2].involved_entities
    /\ game.logs[1].id = 0
    /\ game.logs[2].id = 1
    /\ processed # <<>>

====
